---- MODULE Spec2Model ----
(***************************************************************************)
(* Model of sources/jupyter.ts: the supervisor of the single Jupyter       *)
(* server process, with coalesced start, and the reverse proxy entry       *)
(* points in front of it.                                                  *)
(*                                                                         *)
(* The runtime is the single-threaded Node event loop: every exported      *)
(* function and every event handler runs to completion, so each is one     *)
(* atomic action.  The environment decides how spawn() ends, when the      *)
(* child process exits, whether the readiness probe resolves or rejects,   *)
(* whether kill() throws, whether the Node process outlives an uncaught    *)
(* exception, and when the callers call init/start/close/getPort/handle*.  *)
(***************************************************************************)
EXTENDS Integers, Sequences, FiniteSets, TLC

\* ---------------------------------------------------------------- bounds
MaxStarts == 3      \* start() calls in one behaviour
MaxSpawns == 2      \* childProcess.spawn() calls in one behaviour
MaxPending == 1     \* exchanges (requests, sockets) open in the proxies

\* ------------------------------------------------------------- constants
Null == 0           \* `let jupyterServer: JupyterServer = null`
DefaultPort == 9000 \* `appSettings.nextJupyterPort || 9000`
Undefined == "undefined"   \* an absent header
\* `let appSettings: AppSettings;` before the first init(): undefined.
NoSettings == [stored |-> FALSE]

OriginA == "https://a.example"
OriginB == "https://b.example"
OriginEvil == "https://evil.example"
Wildcard == "*"

\* Text.  A string is a sequence of pieces; a piece is an atomic text that
\* holds no double quote and no `--ip=`, except the two pieces Quote and
\* IpEq themselves.  Concatenation is \o and string equality is equality.
Quote == "\""
IpEq == "--ip="
Notebook == <<"notebook">>       \* the subcommand token 'notebook'
Localhost == <<"localhost">>
NoBrowser == <<"--no-browser">>
\* --ip="<v>"
IpFlag(v) == <<IpEq, Quote, v, Quote>>

\* Configured argument lists (appSettings.jupyterArgs).
ArgsPlain == <<Notebook, IpFlag("10.0.0.5")>>
ArgsNoSubcommand == <<NoBrowser, IpFlag("10.0.0.6"), IpFlag("10.0.0.5")>>
ArgLists ==
    { << >>,
      <<Notebook>>,
      ArgsPlain,
      ArgsNoSubcommand,
      <<Notebook, Notebook>>,
      <<NoBrowser, Notebook>>,
      \* --ip="" and --ip=10.0.0.7 match nothing; the third matches inside
      <<Notebook, <<IpEq, Quote, Quote>>, <<IpEq, "10.0.0.7">>,
        <<"--debug", IpEq, Quote, "10.0.0.8", Quote, "x">>, IpFlag("10.0.0.5")>>,
      \* --NotebookApp.ip="1.2.3.4" is another option
      <<<<"--NotebookApp.ip=", Quote, "1.2.3.4", Quote>>>> }

\* settings.getContentDir()
ContentDir == "/content"

\* The settings objects handed to init(): nextJupyterPort (0 models an unset
\* value, which is falsy), the CORS allow-list, the configured launch
\* arguments and the datalab root.
SettingsUnset ==
    [nextJupyterPort |-> 0,    allowOriginOverrides |-> << >>,
     jupyterArgs |-> << >>, datalabRoot |-> "/datalab"]
SettingsFull ==
    [nextJupyterPort |-> 9001, allowOriginOverrides |-> <<OriginA, OriginB>>,
     jupyterArgs |-> ArgsPlain, datalabRoot |-> "/datalab"]
SettingsChoices == {SettingsUnset, SettingsFull}

\* The settings objects the launch is examined with: every argument list,
\* and an unset port.
LaunchSettings ==
    [nextJupyterPort : {9001}, allowOriginOverrides : {<< >>},
     jupyterArgs : ArgLists, datalabRoot : {"/datalab"}]
    \cup
    [nextJupyterPort : {0}, allowOriginOverrides : {<< >>},
     jupyterArgs : {<<NoBrowser, Notebook>>}, datalabRoot : {""}]

\* Origin header values of a request (Undefined: the header is absent).
RequestOrigins == {Undefined, OriginA, OriginB, OriginEvil}
\* access-control-allow-origin values the upstream may have sent.
UpstreamAllowOrigins == {Undefined, Wildcard, OriginB}
UpstreamStatusCodes == {200, 404}

\* How childProcess.spawn() can end: the child runs; spawn() throws; it
\* returns a ChildProcess that never ran (no executable: pid undefined) and
\* Node queues the child's 'error' event for the next tick; or, with no file
\* descriptor left, it returns such a ChildProcess without stdout and stderr
\* too, and queues the 'error' event all the same.
SpawnOutcomes == {"alive", "throws", "failed", "nofd"}

\* What the proxies hold open: a forwarded HTTP request waiting for the
\* upstream's response; a request the upstream has answered, with status and
\* headers set on the response and the head not yet out; a response whose
\* head has gone out (the body is streaming); a forwarded socket.
ExchangeKinds == {"request", "answered", "response", "socket"}

VARIABLES
    appSettings,    \* the settings stored by init(), NoSettings before
    jupyterServer,  \* Null, or the pid of the JupyterServer record
    registry,       \* callbackManager's pending callbacks (start call ids)
    procs,          \* procs[p]: the child process of the p-th successful spawn
    spawnLog,       \* history: for each spawn() call, the drain count at the call
    calls,          \* history: for each start() call, how it was handled
    drains,         \* history: number of invokeAllCallbacks() runs so far
    tickQueue,      \* process.nextTick queue: `cb(null)` closures of start()
                    \* and the 'error' emits of children that never ran
    log,            \* history: callback invocations, in order
    pending,        \* pending[k]: the open exchanges of kind k
    up,             \* the Node process of the gateway is running
    lastOp          \* the last operation and what its caller observed

vars == <<appSettings, jupyterServer, registry, procs, spawnLog, calls, drains,
          tickQueue, log, pending, up, lastOp>>

\* ------------------------------------------------------------ helpers
SeqContains(s, x) == \E i \in 1..Len(s) : s[i] = x

\* Array.prototype.indexOf, 0-based, -1 when absent.
IndexOf(s, x) ==
    IF SeqContains(s, x)
    THEN (CHOOSE i \in 1..Len(s) : s[i] = x /\ \A j \in 1..(i-1) : s[j] # x) - 1
    ELSE -1

\* `const port = appSettings.nextJupyterPort || 9000`
ServerPort == IF appSettings.nextJupyterPort # 0
              THEN appSettings.nextJupyterPort ELSE DefaultPort

\* init() has stored a settings object.
SettingsStored == appSettings # NoSettings

\* getPort(): `jupyterServer ? jupyterServer.port : 0`, the port kept in the
\* record since its launch.
GetPortOf(server) == IF server # Null THEN procs[server].port ELSE 0

\* ------------------------------------------------------ launch arguments
\* A launch that puts 'notebook' in front of whatever is configured.
LaunchArgs_AlwaysPrepend(jupyterArgs, port, datalabRoot, contentDir) ==
    (<<Notebook>> \o jupyterArgs) \o
        << <<"--port=", ToString(port)>>,
           <<"--FileContentsManager.root_dir=", Quote, datalabRoot, "/", Quote>>,
           <<"--MappingKernelManager.root_dir=", Quote, contentDir, Quote>> >>

\* processArgs of createJupyterServerAtPort.
LaunchArgs(jupyterArgs, port, datalabRoot, contentDir) ==
    LET args == IF Len(jupyterArgs) = 0 \/ jupyterArgs[1] # Notebook
                THEN <<Notebook>> \o jupyterArgs
                ELSE jupyterArgs
    IN  args \o
        << <<"--port=", ToString(port)>>,
           <<"--FileContentsManager.root_dir=", Quote, datalabRoot, "/", Quote>>,
           <<"--MappingKernelManager.root_dir=", Quote, contentDir, Quote>> >>

\* flag.match(/--ip="([^"]+)"/): the places where the pattern matches, each
\* with the place of the closing quote.  The pattern is not anchored.
IpMatches(flag) ==
    {m \in (1..Len(flag)) \X (1..Len(flag)) :
        /\ m[1] + 3 <= m[2]
        /\ flag[m[1]] = IpEq
        /\ flag[m[1] + 1] = Quote
        /\ flag[m[2]] = Quote
        /\ \A k \in (m[1] + 2)..(m[2] - 1) : flag[k] # Quote}

\* match[1] of the leftmost match.
IpMatchGroup(flag) ==
    LET m == CHOOSE x \in IpMatches(flag) :
                 \A y \in IpMatches(flag) : x[1] <= y[1]
    IN  SubSeq(flag, m[1] + 2, m[2] - 1)

\* A scan without the `break`: the last matching argument wins.
ProbeHost_LastMatch(jupyterArgs) ==
    LET hits == {i \in 1..Len(jupyterArgs) : IpMatches(jupyterArgs[i]) # {}}
    IN  IF hits = {} THEN Localhost
        ELSE IpMatchGroup(jupyterArgs[CHOOSE i \in hits : \A j \in hits : j <= i])

\* jupyterServerAddr: 'localhost', or the group of the first configured
\* argument that matches.
ProbeHost(jupyterArgs) ==
    LET hits == {i \in 1..Len(jupyterArgs) : IpMatches(jupyterArgs[i]) # {}}
    IN  IF hits = {} THEN Localhost
        ELSE IpMatchGroup(jupyterArgs[CHOOSE i \in hits : \A j \in hits : i <= j])

NoError == [err |-> "none", attempt |-> 0]
SpawnError(n) == [err |-> "spawn", attempt |-> n]
TimeoutError(p) == [err |-> "timeout", attempt |-> p]
\* The TypeError of `stream.setEncoding` in pipeOutput on an undefined stream.
PipeError(n) == [err |-> "pipe", attempt |-> n]
\* The TypeError of `appSettings.nextJupyterPort` on undefined settings.
SettingsError == [err |-> "settings", attempt |-> 0]

\* ------------------------------------------------- callbacks.CallbackManager
\* checkOngoingAndRegisterCallback(cb): registers cb; true iff no start was
\* ongoing, i.e. cb is the first entry.
RegisterCallback(reg, cb) == Append(reg, cb)
CheckOngoing(reg) == Len(reg) = 0

\* invokeAllCallbacks(e): every registered callback, in registration order,
\* with the same argument. `server` is what jupyterServer holds when the
\* drain begins; `closer` is the place in the registry of the callback that
\* calls close() when it is invoked (0: none does), after which
\* jupyterServer is null for the callbacks that follow it. Each entry is one
\* invocation: the callback, its argument, what getPort() returns as it is
\* entered, and whether it calls close().
InvokeAllCallbacks(reg, e, server, closer) ==
    [i \in 1..Len(reg) |->
        [call |-> reg[i], e |-> e,
         port |-> IF closer # 0 /\ i > closer THEN 0 ELSE GetPortOf(server),
         closes |-> i = closer]]

\* A catch block that only logs the error.
SpawnFailureDrain_Dropped(reg, e, server) == << >>

\* The drains of jupyter.ts: what the callbacks of `reg` are called with.
\* createJupyterServer's catch block, around the spawn:
SpawnFailureDrain(reg, e, server) == InvokeAllCallbacks(reg, e, server, 0)
\* start()'s own catch block, around createJupyterServer():
StartFailureDrain(reg, e, server) == InvokeAllCallbacks(reg, e, server, 0)
\* A rejection continuation that only logs the error.
TimeoutDrain_Dropped(reg, e, server) == << >>

\* the probe's rejection continuation:
TimeoutDrain(reg, e, server) == InvokeAllCallbacks(reg, e, server, 0)
\* A success drain that reaches only the callback of the initiating start.
SuccessDrain_FirstOnly(reg, server, closer) ==
    InvokeAllCallbacks(SubSeq(reg, 1, 1), NoError, server, closer)

\* A success continuation that drains before it records the server.
SuccessDrain_BeforeRecord(reg, server, closer) ==
    InvokeAllCallbacks(reg, NoError, Null, closer)

\* the probe's success continuation, after `jupyterServer = server`:
SuccessDrain(reg, server, closer) ==
    InvokeAllCallbacks(reg, NoError, server, closer)

\* ------------------------------------------------------------------ Init
\* The module as loaded: init() has not been called.
Init ==
    /\ appSettings = NoSettings
    /\ jupyterServer = Null
    /\ registry = << >>
    /\ procs = << >>
    /\ spawnLog = << >>
    /\ calls = << >>
    /\ drains = 0
    /\ tickQueue = << >>
    /\ log = << >>
    /\ pending = [k \in ExchangeKinds |-> 0]
    /\ up = TRUE
    /\ lastOp = [op |-> "load"]

\* ------------------------------------------------------------------ init
\* init(settings): callable at any time; what is running keeps what it was
\* launched with, everything later reads the new object.
InitSettings(settings) ==
    /\ up
    /\ appSettings' = settings
    /\ lastOp' = [op |-> "init"]
    /\ UNCHANGED <<jupyterServer, registry, procs, spawnLog, calls, drains,
                   tickQueue, log, pending, up>>

\* ----------------------------------------------------------------- start
\* A start() without the check for a running server.
StartSeesRunning_Never == FALSE

\* The guard of `if (jupyterServer)` in start().
StartSeesRunning == jupyterServer # Null

\* A start() that spawns whenever no server is recorded, ongoing start or not.
StartSpawns_NoCoalescing == ~StartSeesRunning

\* The branch of start() that goes on to createJupyterServer().
StartSpawns == /\ ~StartSeesRunning
               /\ CheckOngoing(registry)

\* start(cb): cb is the (nStarts+1)-th callback.  outcome is the
\* environment's choice of how childProcess.spawn() ends.
Start(outcome) ==
    LET c == Len(calls) + 1
        pid == Len(procs) + 1
    IN
    /\ up
    /\ Len(calls) < MaxStarts
    /\ IF StartSeesRunning
       THEN \* process.nextTick(() => { cb(null); }); return;
            /\ outcome = "alive"
            /\ tickQueue' = Append(tickQueue, [kind |-> "cb", id |-> c])
            /\ calls' = Append(calls, [path |-> "tick", group |-> drains])
            /\ lastOp' = [op |-> "start", call |-> c, spawn |-> FALSE]
            /\ UNCHANGED <<registry, procs, spawnLog, drains, log>>
       ELSE IF ~StartSpawns
       THEN \* a start is ongoing: registered, nothing else
            /\ outcome = "alive"
            /\ registry' = RegisterCallback(registry, c)
            /\ calls' = Append(calls, [path |-> "registered", group |-> drains])
            /\ lastOp' = [op |-> "start", call |-> c, spawn |-> FALSE]
            /\ UNCHANGED <<tickQueue, procs, spawnLog, drains, log>>
       ELSE IF ~SettingsStored
       THEN \* createJupyterServer(): `appSettings.nextJupyterPort` throws a
            \* TypeError; the catch block of start() drains with it
            /\ outcome = "alive"
            /\ calls' = Append(calls, [path |-> "registered", group |-> drains])
            /\ log' = log \o StartFailureDrain(RegisterCallback(registry, c),
                                               SettingsError, jupyterServer)
            /\ registry' = << >>
            /\ drains' = drains + 1
            /\ lastOp' = [op |-> "start", call |-> c, spawn |-> FALSE]
            /\ UNCHANGED <<tickQueue, procs, spawnLog>>
       ELSE \* createJupyterServer() -> createJupyterServerAtPort(port)
            /\ Len(spawnLog) < MaxSpawns
            /\ calls' = Append(calls, [path |-> "registered", group |-> drains])
            /\ spawnLog' = Append(spawnLog, drains)
            /\ lastOp' = [op |-> "start", call |-> c, spawn |-> TRUE,
                          child |-> IF outcome \in {"throws", "nofd"}
                                    THEN Null ELSE pid,
                          args |-> LaunchArgs(appSettings.jupyterArgs, ServerPort,
                                              appSettings.datalabRoot, ContentDir)]
            /\ IF outcome \in {"throws", "nofd"}
               THEN \* spawn() threw, or pipeOutput() threw on the missing
                    \* stdout before any probe was started:
                    \* catch (e) { callbackManager.invokeAllCallbacks(e); }
                    /\ log' = log \o SpawnFailureDrain(
                                        RegisterCallback(registry, c),
                                        IF outcome = "throws"
                                        THEN SpawnError(Len(spawnLog) + 1)
                                        ELSE PipeError(Len(spawnLog) + 1),
                                        jupyterServer)
                    /\ registry' = << >>
                    /\ drains' = drains + 1
                    /\ tickQueue' =
                          IF outcome = "nofd"
                          THEN Append(tickQueue, [kind |-> "childError", id |-> Null])
                          ELSE tickQueue
                    /\ UNCHANGED procs
               ELSE \* spawn() returned; exit handler and readiness probe
                    \* installed.  No listener is installed for 'error'.
                    /\ procs' = Append(procs,
                           [started |-> outcome = "alive",
                            alive |-> outcome = "alive",
                            probe |-> "pending", hup |-> FALSE,
                            port |-> ServerPort,
                            probeHost |-> ProbeHost(appSettings.jupyterArgs),
                            probePort |-> ServerPort])
                    /\ registry' = RegisterCallback(registry, c)
                    /\ tickQueue' =
                          IF outcome = "failed"
                          THEN Append(tickQueue, [kind |-> "childError", id |-> pid])
                          ELSE tickQueue
                    /\ UNCHANGED <<drains, log>>
    /\ UNCHANGED <<appSettings, jupyterServer, pending, up>>

\* ------------------------------------------------------------ event loop
\* What process.nextTick queued runs as soon as the running JavaScript
\* returns, before the event loop delivers any event (a child's exit, a
\* promise continuation, a proxy event).  Calls into the module can still
\* precede it, from the code that made the start() call.
EventLoopIdle == tickQueue = << >>

\* An exception that nothing catches ends the Node process, unless the host
\* application has installed an 'uncaughtException' handler: `survives`.
AfterUncaught(survives) == survives

\* The 'error' event of a child that never ran.  jupyter.ts installs no
\* listener for it, so the emit throws the error: an uncaught exception.
\* No 'exit' event follows.
ChildErrorEvent(survives) ==
    /\ up
    /\ Len(tickQueue) > 0
    /\ Head(tickQueue).kind = "childError"
    /\ tickQueue' = Tail(tickQueue)
    /\ up' = AfterUncaught(survives)
    /\ lastOp' = [op |-> "childError", pid |-> Head(tickQueue).id]
    /\ UNCHANGED <<appSettings, jupyterServer, registry, procs, spawnLog,
                   calls, drains, log, pending>>

\* A close() that signals the process but keeps the record.
CloseServer_Keeps == jupyterServer

\* `jupyterServer = null` at the end of close().
CloseServer == Null

\* ------------------------------------------------- readiness probe outcome
\* tcp.waitUntilUsedOnHost(port, addr, 100, 15000) resolves once anything
\* accepts a connection on addr:port, a child of this module or not, and
\* rejects at the deadline; the continuations do not look at the child.
\* `jupyterServer = server` in the probe's success continuation.
ProbeSuccessServer(p) == p

\* The probe of process p resolves: state populated, then the drain.
\* `closer` is the place in the registry of the callback that calls close()
\* from inside the drain (0: none does), `killThrows` whether the kill() of
\* that close() throws. That close() finds the server just recorded: it
\* signals its process and sets jupyterServer to null, and the callbacks
\* after it are invoked with null all the same.
ProbeSuccess(p, closer, killThrows) ==
    /\ up
    /\ EventLoopIdle
    /\ procs[p].probe = "pending"
    /\ closer <= Len(registry)
    /\ killThrows => closer # 0
    /\ jupyterServer' = IF closer = 0 THEN ProbeSuccessServer(p) ELSE CloseServer
    /\ log' = log \o SuccessDrain(registry, ProbeSuccessServer(p), closer)
    /\ registry' = << >>
    /\ drains' = drains + 1
    /\ procs' = [procs EXCEPT
                    ![p].probe = "resolved",
                    ![p].hup = IF closer # 0 /\ ~killThrows /\ procs[p].alive
                               THEN TRUE ELSE @]
    /\ lastOp' = [op |-> "probeSuccess", pid |-> p, closer |-> closer]
    /\ UNCHANGED <<appSettings, spawnLog, calls, tickQueue, pending, up>>

\* The probe of process p rejects after the 15 s deadline: the drain only.
ProbeTimeout(p) ==
    /\ up
    /\ EventLoopIdle
    /\ procs[p].probe = "pending"
    /\ log' = log \o TimeoutDrain(registry, TimeoutError(p), jupyterServer)
    /\ registry' = << >>
    /\ drains' = drains + 1
    /\ procs' = [procs EXCEPT ![p].probe = "rejected"]
    /\ lastOp' = [op |-> "probeTimeout", pid |-> p]
    /\ UNCHANGED <<appSettings, jupyterServer, spawnLog, calls, tickQueue,
                   pending, up>>

\* ------------------------------------------------------------ exitHandler
\* An exit handler that only logs.
ExitHandlerServer_Keeps(p) == jupyterServer

\* `jupyterServer = null` in exitHandler, whichever child it was installed on.
ExitHandlerServer(p) == Null

\* Child p exits (on its own, or after a signal): its 'exit' event fires.
Exit(p) ==
    /\ up
    /\ EventLoopIdle
    /\ procs[p].alive
    /\ procs' = [procs EXCEPT ![p].alive = FALSE]
    /\ jupyterServer' = ExitHandlerServer(p)
    /\ lastOp' = [op |-> "exit", pid |-> p, was |-> jupyterServer]
    /\ UNCHANGED <<appSettings, registry, spawnLog, calls, drains, tickQueue,
                   log, pending, up>>

\* ------------------------------------------------------------------ close
\* `const jupyterProcess = jupyterServer.childProcess` dereferences null
\* when no server is recorded.
CloseFaults == jupyterServer = Null

\* A kill() outside any try block: its exception leaves close().
KillPropagates_NoTry(killThrows) == killThrows

\* `try { jupyterProcess.kill('SIGHUP'); } catch (e) { }`: whether an
\* exception of kill() leaves close().
KillPropagates(killThrows) == FALSE

\* `jupyterServer.childProcess`, the process kill('SIGHUP') is called on.
KillTarget == jupyterServer

\* close(): killThrows is the environment's choice of whether kill() throws;
\* kill() on a child that has exited, or never ran, delivers nothing.
Close(killThrows) ==
    /\ up
    /\ IF CloseFaults
       THEN /\ ~killThrows
            /\ lastOp' = [op |-> "close", fault |-> TRUE, was |-> jupyterServer,
                          killThrew |-> FALSE, killed |-> Null]
            /\ UNCHANGED <<jupyterServer, procs>>
       ELSE /\ procs' = IF killThrows \/ ~procs[KillTarget].alive
                        THEN procs
                        ELSE [procs EXCEPT ![KillTarget].hup = TRUE]
            /\ jupyterServer' = IF KillPropagates(killThrows)
                                THEN jupyterServer ELSE CloseServer
            /\ lastOp' = [op |-> "close", fault |-> KillPropagates(killThrows),
                          was |-> jupyterServer,
                          killThrew |-> killThrows, killed |-> KillTarget]
    /\ UNCHANGED <<appSettings, registry, spawnLog, calls, drains,
                   tickQueue, log, pending, up>>

\* ----------------------------------------------------------- nextTick
\* The closure queued by start() on a running server: `cb(null)`.
Tick ==
    /\ up
    /\ Len(tickQueue) > 0
    /\ Head(tickQueue).kind = "cb"
    /\ log' = Append(log, [call |-> Head(tickQueue).id, e |-> NoError,
                           port |-> GetPortOf(jupyterServer),
                           closes |-> FALSE])
    /\ tickQueue' = Tail(tickQueue)
    /\ lastOp' = [op |-> "tick", call |-> Head(tickQueue).id]
    /\ UNCHANGED <<appSettings, jupyterServer, registry, procs, spawnLog,
                   calls, drains, pending, up>>

\* ------------------------------------------------------------ getPort
GetPort ==
    /\ up
    /\ lastOp' = [op |-> "getPort", result |-> GetPortOf(jupyterServer)]
    /\ UNCHANGED <<appSettings, jupyterServer, registry, procs, spawnLog,
                   calls, drains, tickQueue, log, pending, up>>

\* ------------------------------------------------------ proxy entry points
\* Entry points without the defensive check.
NotCreatedYet_Never == FALSE

\* The guard `if (!jupyterServer)` of handleRequest and handleSocket.
NotCreatedYet == jupyterServer = Null

\* The exchanges open in the proxies, of every kind.
OpenExchanges ==
    pending["request"] + pending["answered"] + pending["response"]
        + pending["socket"]

\* handleRequest(request, response); a fresh response has statusCode 200.
HandleRequest ==
    /\ up
    /\ IF NotCreatedYet
       THEN /\ lastOp' = [op |-> "handleRequest", statusCode |-> 500,
                          ended |-> TRUE, forwarded |-> FALSE, fault |-> FALSE]
            /\ UNCHANGED pending
       ELSE \* jupyterServer.proxy.web(request, response, null)
            /\ OpenExchanges < MaxPending
            /\ lastOp' = [op |-> "handleRequest", statusCode |-> 200,
                          ended |-> FALSE, forwarded |-> TRUE,
                          fault |-> (jupyterServer = Null)]
            /\ pending' = [pending EXCEPT !["request"] = @ + 1]
    /\ UNCHANGED <<appSettings, jupyterServer, registry, procs, spawnLog,
                   calls, drains, tickQueue, log, up>>

\* handleSocket(request, socket, head)
HandleSocket ==
    /\ up
    /\ IF NotCreatedYet
       THEN /\ lastOp' = [op |-> "handleSocket", written |-> FALSE,
                          forwarded |-> FALSE, fault |-> FALSE]
            /\ UNCHANGED pending
       ELSE \* jupyterServer.proxy.ws(request, socket, head)
            /\ OpenExchanges < MaxPending
            /\ lastOp' = [op |-> "handleSocket", written |-> FALSE,
                          forwarded |-> TRUE, fault |-> (jupyterServer = Null)]
            /\ pending' = [pending EXCEPT !["socket"] = @ + 1]
    /\ UNCHANGED <<appSettings, jupyterServer, registry, procs, spawnLog,
                   calls, drains, tickQueue, log, up>>

\* util.headerAsString(request.headers.origin)
HeaderAsString(h) == IF h = Undefined THEN "" ELSE h

\* A rewrite that adds the allow-listed origin but never strips the
\* upstream's header.
ResponseHeaders_NoStrip(headers, originHeader, allow) ==
    LET origin == HeaderAsString(originHeader) IN
    IF Len(allow) # 0 /\ IndexOf(allow, origin) # -1
    THEN [headers EXCEPT !.acao = origin, !.acac = "true"]
    ELSE headers

\* The header rewrite of responseHandler, as a function of the upstream's
\* headers, the request's Origin header and the allow-list.
ResponseHeaders(headers, originHeader, allow) ==
    LET origin == HeaderAsString(originHeader) IN
    IF Len(allow) # 0 /\ IndexOf(allow, origin) # -1
    THEN [headers EXCEPT !.acao = origin, !.acac = "true"]
    ELSE IF headers.acao # Undefined
    THEN [headers EXCEPT !.acao = Undefined]
    ELSE headers

\* The proxy's 'proxyRes' event for a forwarded request; the proxy then
\* sets status and headers on the response and pipes the body into it.
ResponseHandler(originHeader, upstream, status) ==
    /\ up
    /\ EventLoopIdle
    /\ pending["request"] > 0
    /\ pending' = [pending EXCEPT !["request"] = @ - 1, !["answered"] = @ + 1]
    /\ lastOp' = [op |-> "proxyRes", origin |-> originHeader,
                  upstream |-> upstream,
                  headers |-> ResponseHeaders(upstream, originHeader,
                                              appSettings.allowOriginOverrides)]
    /\ UNCHANGED <<appSettings, jupyterServer, registry, procs, spawnLog,
                   calls, drains, tickQueue, log, up>>

\* The head of an answered request goes out: the proxy wrote it, or the
\* first piece of the body took it along.
HeadSent ==
    /\ up
    /\ EventLoopIdle
    /\ pending["answered"] > 0
    /\ pending' = [pending EXCEPT !["answered"] = @ - 1, !["response"] = @ + 1]
    /\ lastOp' = [op |-> "proxyHead"]
    /\ UNCHANGED <<appSettings, jupyterServer, registry, procs, spawnLog,
                   calls, drains, tickQueue, log, up>>

\* An answered request (its body was empty), a streamed response, or a
\* forwarded socket, comes to its end.
ExchangeEnds(kind) ==
    /\ up
    /\ EventLoopIdle
    /\ kind # "request"
    /\ pending[kind] > 0
    /\ pending' = [pending EXCEPT ![kind] = @ - 1]
    /\ lastOp' = [op |-> "proxyEnd", kind |-> kind]
    /\ UNCHANGED <<appSettings, jupyterServer, registry, procs, spawnLog,
                   calls, drains, tickQueue, log, up>>

\* `response.writeHead(500, ...)` throws when the third argument of the
\* handler is the net.Socket of a forwarded socket (it has no writeHead:
\* TypeError) and when the response head has gone out already
\* (ERR_HTTP_HEADERS_SENT).
WriteHeadThrows(kind) == kind \in {"response", "socket"}

\* An error handler that gives up the server on a proxy error.
ErrorHandler_TearsDown(kind, survives) ==
    /\ up
    /\ EventLoopIdle
    /\ pending[kind] > 0
    /\ pending' = [pending EXCEPT ![kind] = @ - 1]
    /\ jupyterServer' = Null
    /\ up' = IF WriteHeadThrows(kind) THEN AfterUncaught(survives) ELSE TRUE
    /\ lastOp' = [op |-> "proxyError", kind |-> kind,
                  statusCode |-> 500, ended |-> TRUE,
                  fault |-> WriteHeadThrows(kind)]
    /\ UNCHANGED <<appSettings, registry, procs, spawnLog,
                   calls, drains, tickQueue, log>>

\* The proxy's 'error' event for an exchange of the given kind: a response
\* whose head is not out yet gets 500 and is ended; otherwise writeHead
\* throws, the handler has written and ended nothing, and the exception
\* leaves the handler into the proxy's emit, uncaught.
ErrorHandler(kind, survives) ==
    /\ up
    /\ EventLoopIdle
    /\ pending[kind] > 0
    /\ pending' = [pending EXCEPT ![kind] = @ - 1]
    /\ IF WriteHeadThrows(kind)
       THEN /\ up' = AfterUncaught(survives)
            /\ lastOp' = [op |-> "proxyError", kind |-> kind,
                          ended |-> FALSE, fault |-> TRUE]
       ELSE /\ survives
            /\ up' = up
            /\ lastOp' = [op |-> "proxyError", kind |-> kind,
                          statusCode |-> 500, ended |-> TRUE, fault |-> FALSE]
    /\ UNCHANGED <<appSettings, jupyterServer, registry, procs, spawnLog,
                   calls, drains, tickQueue, log>>

UpstreamHeaders ==
    [acao : UpstreamAllowOrigins, acac : {Undefined}]

\* ------------------------------------------------------------------- Next
Next ==
    \/ \E settings \in SettingsChoices : InitSettings(settings)
    \/ \E o \in SpawnOutcomes : Start(o)
    \/ \E v \in BOOLEAN : ChildErrorEvent(v)
    \/ \E p \in 1..Len(procs), closer \in 0..MaxStarts, killThrows \in BOOLEAN :
          ProbeSuccess(p, closer, killThrows)
    \/ \E p \in 1..Len(procs) : ProbeTimeout(p)
    \/ \E p \in 1..Len(procs) : Exit(p)
    \/ \E t \in BOOLEAN : Close(t)
    \/ Tick
    \/ GetPort
    \/ HandleRequest
    \/ HandleSocket
    \/ \E o \in RequestOrigins, h \in UpstreamHeaders, s \in UpstreamStatusCodes :
          ResponseHandler(o, h, s)
    \/ HeadSent
    \/ \E k \in ExchangeKinds : ExchangeEnds(k)
    \/ \E k \in ExchangeKinds, v \in BOOLEAN : ErrorHandler(k, v)

Spec == Init /\ [][Next]_vars

\* ---------------------------------------------------------- life cycle
\* The life cycle alone: init, start, close and what the event loop
\* delivers for the children and their probes.  The gateway operations are
\* left to Spec: they change none of the variables of the life cycle.
NextLife ==
    \/ \E settings \in SettingsChoices : InitSettings(settings)
    \/ \E o \in SpawnOutcomes : Start(o)
    \/ \E v \in BOOLEAN : ChildErrorEvent(v)
    \/ \E p \in 1..Len(procs), closer \in 0..MaxStarts, killThrows \in BOOLEAN :
          ProbeSuccess(p, closer, killThrows)
    \/ \E p \in 1..Len(procs) : ProbeTimeout(p)
    \/ \E p \in 1..Len(procs) : Exit(p)
    \/ \E t \in BOOLEAN : Close(t)
    \/ Tick

SpecLife == Init /\ [][NextLife]_vars

\* ---------------------------------------------------------- scheduling
\* The promise of tcp.waitUntilUsedOnHost settles: it resolves, or it rejects
\* at the 15 s deadline.
ProbeSettles(p) ==
    /\ p <= Len(procs)
    /\ \/ \E closer \in 0..MaxStarts : ProbeSuccess(p, closer, FALSE)
       \/ ProbeTimeout(p)

\* What process.nextTick queued runs.
TickQueueRuns == Tick \/ \E v \in BOOLEAN : ChildErrorEvent(v)

\* The life cycle with one settings object, which init() stores and may
\* store again, and with a kill() that does not throw in a close() called
\* from inside a drain.
NextFair ==
    \/ InitSettings(SettingsFull)
    \/ \E o \in SpawnOutcomes : Start(o)
    \/ \E v \in BOOLEAN : ChildErrorEvent(v)
    \/ \E p \in 1..Len(procs), closer \in 0..MaxStarts :
          ProbeSuccess(p, closer, FALSE)
    \/ \E p \in 1..Len(procs) : ProbeTimeout(p)
    \/ \E p \in 1..Len(procs) : Exit(p)
    \/ \E t \in BOOLEAN : Close(t)
    \/ Tick

\* The life cycle under Node's scheduling: what is queued for the next tick
\* runs, and every probe settles.
FairSpec ==
    /\ Init
    /\ [][NextFair]_vars
    /\ WF_vars(TickQueueRuns)
    /\ \A p \in 1..MaxSpawns : WF_vars(ProbeSettles(p))

\* ------------------------------------------------- the launch, on its own
\* The launches of the life cycle, for every configured argument list:
\* init, start, and what the event loop delivers until the probe settles.
NextLaunch ==
    \/ \E settings \in LaunchSettings : InitSettings(settings)
    \/ \E o \in SpawnOutcomes : Start(o)
    \/ \E v \in BOOLEAN : ChildErrorEvent(v)
    \/ \E p \in 1..Len(procs) : ProbeSuccess(p, 0, FALSE)
    \/ \E p \in 1..Len(procs) : ProbeTimeout(p)
    \/ Tick

SpecLaunch == Init /\ [][NextLaunch]_vars

\* ======================================================================
\* Properties
\* ======================================================================
\* The start() calls that were registered while `g` drains had happened: the
\* calls made while no server was recorded and before the outcome of the
\* first of them was known.
GroupCalls(g) ==
    {c \in 1..Len(calls) : calls[c].path = "registered" /\ calls[c].group = g}

\* The spawn() calls made while `g` drains had happened.
SpawnsOf(g) == {i \in 1..Len(spawnLog) : spawnLog[i] = g}

\* The invocations of the callback of start call c.
EntriesOf(c) == {i \in 1..Len(log) : log[i].call = c}

AliveProcs == {p \in 1..Len(procs) : procs[p].alive}

\* The 'exit' event of child p has been observed.
Exited(p) == procs[p].started /\ ~procs[p].alive

\* A start attempt is in flight: a probe has neither resolved nor rejected.
InFlight == \E p \in 1..Len(procs) : procs[p].probe = "pending"

\* C1: for any N >= 1 start calls made while Server State is null and before
\* the outcome of the first is known, spawn() is called exactly once, all N
\* callbacks are invoked once the outcome is known, and all with the same
\* outcome (all null, or all the same error).
C1_CoalescedStart ==
    \A g \in 0..drains :
        GroupCalls(g) # {} =>
            /\ Cardinality(SpawnsOf(g)) = 1
            /\ \A c, d \in GroupCalls(g) :
                  \A i \in EntriesOf(c), j \in EntriesOf(d) : log[i].e = log[j].e
            /\ g < drains => \A c \in GroupCalls(g) : EntriesOf(c) # {}

\* The calls of group g were made before init() had stored any settings.
BeforeInit(g) ==
    \E c \in GroupCalls(g) : \E i \in EntriesOf(c) : log[i].e = SettingsError

\* C1, as the code has it: for any N >= 1 start calls made once init() has
\* stored the settings, while Server State is null and before the outcome of
\* the first is known, spawn() is called exactly once, all N callbacks are
\* invoked once the outcome is known, and all with the same outcome; a
\* start call made before init() spawns nothing and its callback gets the
\* TypeError at once.
C1_CoalescedStartAfterInit ==
    \A g \in 0..drains :
        GroupCalls(g) # {} =>
            /\ Cardinality(SpawnsOf(g)) = IF BeforeInit(g) THEN 0 ELSE 1
            /\ BeforeInit(g) => Cardinality(GroupCalls(g)) = 1
            /\ \A c, d \in GroupCalls(g) :
                  \A i \in EntriesOf(c), j \in EntriesOf(d) : log[i].e = log[j].e
            /\ g < drains => \A c \in GroupCalls(g) : EntriesOf(c) # {}

\* A start attempt with at least two coalesced calls has completed with
\* success for all of them.
C1_Witness ==
    \E g \in 0..drains :
        /\ g < drains
        /\ Cardinality(GroupCalls(g)) >= 2
        /\ \A c \in GroupCalls(g) : \E i \in EntriesOf(c) : log[i].e = NoError

\* C2: at every moment at most one process spawned by this module is alive.
C2_AtMostOneAlive == Cardinality(AliveProcs) <= 1

\* C3: when a start attempt completes, every callback registered during it
\* has been invoked exactly once, in registration order and with the same
\* outcome, and the registry holds none of them; callbacks of the attempt in
\* flight have not been invoked and are exactly the registry, in order.
C3_DrainExactlyOnce ==
    /\ \A c \in 1..Len(calls) :
          calls[c].path = "registered" =>
              Cardinality(EntriesOf(c)) = IF calls[c].group < drains THEN 1 ELSE 0
    /\ \A i, j \in 1..Len(log) :
          ( /\ i < j
            /\ calls[log[i].call].path = "registered"
            /\ calls[log[j].call].path = "registered"
            /\ calls[log[i].call].group = calls[log[j].call].group )
          => log[i].call < log[j].call /\ log[i].e = log[j].e
    /\ Len(registry) = Cardinality(GroupCalls(drains))
    /\ \A k \in 1..Len(registry) :
          /\ registry[k] \in GroupCalls(drains)
          /\ \A m \in 1..(k-1) : registry[m] < registry[k]

\* A completed attempt with two coalesced callbacks that failed, and an empty
\* registry.
C3_Witness ==
    /\ registry = << >>
    /\ \E g \in 0..(drains - 1) :
          /\ Cardinality(GroupCalls(g)) >= 2
          /\ \A c \in GroupCalls(g) : \E i \in EntriesOf(c) : log[i].e.err = "timeout"
\* C4: a start() call made while Server State is populated spawns nothing
\* and registers nothing, invokes nothing synchronously, and queues its
\* callback for a later tick; the queued closure invokes it with null.
C4_StartWhenRunning ==
    [][ /\ (lastOp'.op = "start" /\ jupyterServer # Null) =>
              /\ spawnLog' = spawnLog
              /\ procs' = procs
              /\ registry' = registry
              /\ log' = log
              /\ tickQueue' = Append(tickQueue,
                                     [kind |-> "cb", id |-> lastOp'.call])
        /\ lastOp'.op = "tick" =>
              /\ Len(log') = Len(log) + 1
              /\ log'[Len(log')].call = Head(tickQueue).id
              /\ log'[Len(log')].e = NoError
              /\ tickQueue' = Tail(tickQueue) ]_vars

\* The callback of a start() made on a running server has been invoked with
\* null by the tick, with one process spawned in all.
C4_Witness ==
    /\ lastOp.op = "tick"
    /\ calls[lastOp.call].path = "tick"
    /\ \E i \in EntriesOf(lastOp.call) : log[i].e = NoError
    /\ Len(spawnLog) = 1

\* C5: when close() returns, getPort() returns 0 and no start is ongoing;
\* a start() that follows calls spawn() once more.
C5_CloseThenStart ==
    [][ /\ (lastOp'.op = "close" /\ ~lastOp'.fault) =>
              /\ GetPortOf(jupyterServer') = 0
              /\ StartSpawns'
        /\ (lastOp.op = "close" /\ ~lastOp.fault /\ lastOp'.op = "start") =>
              /\ Len(spawnLog') = Len(spawnLog) + 1
              /\ spawnLog' # spawnLog ]_vars

\* The first process was started, became ready and was closed; a later
\* start() has spawned a second one.
C5_Witness ==
    /\ Len(procs) = 2
    /\ procs[1].probe = "resolved"
    /\ procs[1].hup
    /\ lastOp.op = "start"
    /\ jupyterServer = Null

\* C6: close() called while Server State is null completes without a fault
\* and leaves Server State null.
C6_CloseWhenNull ==
    (lastOp.op = "close" /\ lastOp.was = Null) =>
        ~lastOp.fault /\ jupyterServer = Null

\* C7: when the process recorded in Server State, which its start found
\* ready, exits: Server State becomes null, getPort() returns 0, no callback
\* is invoked or queued by the exit, and a start() that follows calls
\* spawn() again.
C7_UnexpectedExit ==
    [][ /\ (lastOp'.op = "exit" /\ jupyterServer = lastOp'.pid
                /\ procs[lastOp'.pid].probe = "resolved") =>
              /\ jupyterServer' = Null
              /\ GetPortOf(jupyterServer') = 0
              /\ log' = log
              /\ tickQueue' = tickQueue
              /\ registry' = registry
              /\ StartSpawns'
        /\ (lastOp.op = "exit" /\ lastOp.was = lastOp.pid /\ lastOp'.op = "start") =>
              Len(spawnLog') = Len(spawnLog) + 1 ]_vars

\* The running process exited on its own (never signalled) and the start()
\* that followed spawned a second process.
C7_Witness ==
    /\ Len(procs) = 2
    /\ procs[1].probe = "resolved"
    /\ ~procs[1].alive
    /\ ~procs[1].hup
    /\ procs[2].alive
    /\ lastOp.op = "start"

\* The step is the failure of a start attempt: the launch failed (start()
\* caught an exception, or a child that start() took for launched reported
\* that it never ran), or the probe timed out.
FailureStep ==
    \/ lastOp'.op = "probeTimeout"
    \/ lastOp'.op = "childError" /\ lastOp'.pid # Null
    \/ lastOp'.op = "start" /\ drains' # drains

\* The start calls coalesced into the attempt that the step completes.
CompletedCalls ==
    {c \in 1..Len(calls') :
        calls'[c].path = "registered" /\ calls'[c].group = drains}

\* C8: when a start attempt fails, because the launch fails or because the
\* probe times out, every coalesced callback is invoked, once, with that one
\* error, Server State is and stays null, and the failure itself spawns
\* nothing further: spawn() is only ever called by start().
C8_FailureNoRetry ==
    [][ /\ FailureStep =>
              /\ \A c \in CompletedCalls :
                    \E i \in (Len(log) + 1)..Len(log') :
                        /\ log'[i].call = c
                        /\ log'[i].e.err \in {"spawn", "pipe", "timeout", "settings"}
                        /\ log'[i].e = log'[Len(log')].e
              /\ Len(log') = Len(log) + Cardinality(CompletedCalls)
              /\ jupyterServer = Null /\ jupyterServer' = Null
              /\ registry' = << >>
              /\ lastOp'.op = "probeTimeout" =>
                    spawnLog' = spawnLog /\ Len(procs') = Len(procs)
        /\ spawnLog' # spawnLog => lastOp'.op = "start" ]_vars


\* C9: handleRequest on a null Server State answers 500, ends the response
\* and forwards nothing; handleSocket on a null Server State forwards and
\* writes nothing; neither faults nor changes Server State.
C9_NotReadyAccess ==
    [][ /\ (lastOp'.op = "handleRequest" /\ jupyterServer = Null) =>
              /\ lastOp'.statusCode = 500
              /\ lastOp'.ended
              /\ ~lastOp'.forwarded
              /\ ~lastOp'.fault
              /\ pending' = pending
              /\ jupyterServer' = Null
        /\ (lastOp'.op = "handleSocket" /\ jupyterServer = Null) =>
              /\ ~lastOp'.forwarded
              /\ ~lastOp'.written
              /\ ~lastOp'.fault
              /\ jupyterServer' = Null ]_vars

\* A request was answered 500 while a start attempt was in flight.
C9_Witness ==
    /\ lastOp.op = "handleRequest"
    /\ lastOp.statusCode = 500
    /\ jupyterServer = Null
    /\ Len(registry) > 0

\* C10: after responseHandler, a request whose Origin is in the allow-list
\* gets access-control-allow-origin equal to that origin and
\* access-control-allow-credentials 'true'; a request whose Origin is not in
\* the allow-list (also when the list is empty) gets no
\* access-control-allow-origin, whatever the upstream sent.
C10_CorsRewrite ==
    lastOp.op = "proxyRes" =>
        IF lastOp.origin # Undefined
           /\ SeqContains(appSettings.allowOriginOverrides, lastOp.origin)
        THEN /\ lastOp.headers.acao = lastOp.origin
             /\ lastOp.headers.acac = "true"
        ELSE lastOp.headers.acao = Undefined

\* An upstream wildcard was stripped for an origin outside a non-empty list.
C10_Witness ==
    /\ lastOp.op = "proxyRes"
    /\ lastOp.origin = OriginEvil
    /\ lastOp.upstream.acao = Wildcard
    /\ Len(appSettings.allowOriginOverrides) > 0
    /\ lastOp.headers.acao = Undefined
\* ----------------------------------------------------------------------
\* The configured arguments after the subcommand: all of them, or all but a
\* leading 'notebook'.
RemainingArgs(cfg) ==
    IF Len(cfg) > 0 /\ Head(cfg) = Notebook THEN Tail(cfg) ELSE cfg

\* C11: for every configured argument list, the launch arguments are the
\* one token 'notebook', then the configured arguments in order (without a
\* leading 'notebook' of their own, which is the only case where nothing is
\* prepended), then --port=<port> and the two root-directory options.
C11_LaunchArgs ==
    (lastOp.op = "start" /\ lastOp.spawn) =>
        LET cfg == appSettings.jupyterArgs
            n == Len(RemainingArgs(cfg))
            a == lastOp.args
        IN  /\ Len(a) = n + 4
            /\ a[1] = Notebook
            /\ SubSeq(a, 2, n + 1) = RemainingArgs(cfg)
            /\ a[n + 2] = <<"--port=", ToString(ServerPort)>>
            /\ a[n + 3] = <<"--FileContentsManager.root_dir=", Quote,
                            appSettings.datalabRoot, "/", Quote>>
            /\ a[n + 4] = <<"--MappingKernelManager.root_dir=", Quote,
                            ContentDir, Quote>>
            /\ Len(a) = Len(cfg) + 3 +
                    (IF Len(cfg) = 0 \/ cfg[1] # Notebook THEN 1 ELSE 0)

\* A launch whose configured list already starts with 'notebook' and says
\* more: nothing was prepended.
C11_Witness ==
    /\ lastOp.op = "start" /\ lastOp.spawn
    /\ Len(appSettings.jupyterArgs) >= 2
    /\ appSettings.jupyterArgs[1] = Notebook
    /\ lastOp.args[2] # Notebook
    /\ Len(lastOp.args) = Len(appSettings.jupyterArgs) + 3

\* flag has the form ... --ip="<v>" ..., v not empty and free of quotes.
HasIpForm(flag, v) ==
    /\ Len(v) > 0
    /\ \A k \in 1..Len(v) : v[k] # Quote
    /\ \E i \in 1..Len(flag) :
          /\ i + 2 + Len(v) <= Len(flag)
          /\ SubSeq(flag, i, i + 2 + Len(v)) = (<<IpEq, Quote>> \o v) \o <<Quote>>

\* The texts that can be the <value> of an argument.
ValuesIn(flag) ==
    {SubSeq(flag, i, j) : i \in 1..Len(flag), j \in 1..Len(flag)}

MatchesIp(flag) == \E v \in ValuesIn(flag) : HasIpForm(flag, v)

\* C12: the probe of every process that start() launches targets the
\* <value> of the first configured argument of the form --ip="<value>", or
\* 'localhost' when no configured argument has that form, on the port the
\* process was launched with; the target of a probe never changes.
C12_ProbeTarget ==
    [][ /\ (lastOp'.op = "start" /\ lastOp'.spawn /\ lastOp'.child # Null) =>
              LET cfg == appSettings.jupyterArgs
                  hits == {i \in 1..Len(cfg) : MatchesIp(cfg[i])}
                  child == procs'[lastOp'.child]
              IN  /\ hits = {} => child.probeHost = Localhost
                  /\ hits # {} =>
                        HasIpForm(cfg[CHOOSE i \in hits : \A j \in hits : i <= j],
                                  child.probeHost)
                  /\ \E k \in 1..Len(lastOp'.args) :
                        lastOp'.args[k] = <<"--port=", ToString(child.probePort)>>
                  /\ child.probePort = child.port
        /\ \A p \in 1..Len(procs) :
              /\ procs'[p].probeHost = procs[p].probeHost
              /\ procs'[p].probePort = procs[p].probePort ]_vars

\* Several configured arguments carry an address, after ones that only
\* look like it: the probe of the child just launched went to the first
\* real one.
C12_Witness ==
    /\ lastOp.op = "start" /\ lastOp.spawn /\ lastOp.child # Null
    /\ Cardinality({i \in 1..Len(appSettings.jupyterArgs) :
                        MatchesIp(appSettings.jupyterArgs[i])}) >= 2
    /\ ~MatchesIp(appSettings.jupyterArgs[2])
    /\ procs[lastOp.child].probeHost = <<"10.0.0.8">>
    /\ procs[lastOp.child].probePort = 9001
\* C13: once Server State holds process P it holds P until close() or the
\* exit of P itself; no other step, the exit of another process included,
\* changes it.
C13_StaysPopulated ==
    [][ (jupyterServer # Null /\ jupyterServer' # jupyterServer) =>
            \/ lastOp'.op = "close"
            \/ lastOp'.op = "exit" /\ lastOp'.pid = jupyterServer ]_vars

\* Invocations i and j belong to the drain of one successful start attempt.
SameSuccessDrain(i, j) ==
    /\ calls[log[i].call].path = "registered"
    /\ calls[log[j].call].path = "registered"
    /\ calls[log[i].call].group = calls[log[j].call].group
    /\ log[i].e = NoError

\* C14: in the drain of a successful start, a callback invoked while another
\* callback of the same attempt is still to be invoked observes
\* getPort() = 0.
C14_NoRunningWhilePending ==
    \A i, j \in 1..Len(log) :
        (i < j /\ SameSuccessDrain(i, j)) => log[i].port = 0

\* C14, as the code has it: no running state is observable while callbacks
\* wait for the outcome of their attempt; the drain of a successful start
\* begins with Server State populated, so a callback of it observes
\* getPort() # 0, also while others of the attempt are still to be invoked,
\* unless an earlier callback of the same drain has called close(), and then
\* it observes getPort() = 0.
C14_RunningUntilClosed ==
    /\ registry # << >> => GetPortOf(jupyterServer) = 0
    /\ \A i \in 1..Len(log) :
          SameSuccessDrain(i, i) =>
              (log[i].port # 0 <=>
                  ~\E j \in 1..(i - 1) : SameSuccessDrain(j, i) /\ log[j].closes)

\* A success drain of three callbacks: the first two saw the server running
\* while the third was still to be invoked, the second called close(), and
\* the third saw no server.
C14_Witness ==
    /\ lastOp.op = "probeSuccess"
    /\ \E i, j, k \in 1..Len(log) :
          /\ i < j /\ j < k
          /\ SameSuccessDrain(i, j) /\ SameSuccessDrain(j, k)
          /\ log[i].port # 0 /\ ~log[i].closes
          /\ log[j].port # 0 /\ log[j].closes
          /\ log[k].port = 0
\* The readiness probe always either succeeds or times out.
ProbeAlwaysSettles == [](InFlight => <>(~InFlight))

\* C15: given that the readiness probe always either succeeds or times out,
\* every callback passed to start() is eventually invoked; and no callback
\* is ever invoked more than once, whatever is interleaved with the start.
C15_EventuallyInvokedOnce ==
    /\ ProbeAlwaysSettles =>
          \A c \in 1..MaxStarts :
              (Len(calls) >= c) ~> (Cardinality(EntriesOf(c)) = 1)
    /\ [](\A c \in 1..Len(calls) : Cardinality(EntriesOf(c)) <= 1)

\* Every start() call of the run has had its callback invoked once, on both
\* paths, with a close() and the exit of a child along the way.
C15_Witness ==
    /\ Len(calls) = MaxStarts
    /\ \A c \in 1..Len(calls) : Cardinality(EntriesOf(c)) = 1
    /\ \E c \in 1..Len(calls) : calls[c].path = "tick"
    /\ \E p \in 1..Len(procs) : procs[p].hup /\ ~procs[p].alive
    /\ \E p \in 1..Len(procs) : procs[p].probe = "rejected"
\* The operations of the proxy gateway and the port query.
GatewayOps == {"getPort", "handleRequest", "handleSocket", "proxyRes", "proxyError"}

\* C16: Server State changes only in the success continuation of a start,
\* in the exit handler and in close(); getPort, handleRequest, handleSocket
\* and the proxy's response and error handlers leave Server State and the
\* registry as they are.
C16_Frame ==
    [][ /\ jupyterServer' # jupyterServer =>
              lastOp'.op \in {"probeSuccess", "exit", "close"}
        /\ lastOp'.op \in GatewayOps =>
              /\ jupyterServer' = jupyterServer
              /\ registry' = registry
              /\ tickQueue' = tickQueue
              /\ procs' = procs
              /\ log' = log ]_vars

\* The error of a forwarded socket, whose handler threw, has been survived,
\* and the server is still recorded.
C16_Witness ==
    /\ lastOp.op = "proxyError"
    /\ lastOp.kind = "socket"
    /\ lastOp.fault
    /\ up
    /\ jupyterServer # Null
    /\ procs[jupyterServer].alive

\* C17: close() on a recorded server calls kill on the recorded process
\* (a live one receives SIGHUP unless kill throws, no other process is
\* signalled); whether or not kill throws, close() returns normally and
\* Server State is null.
C17_CloseSignals ==
    [][ (lastOp'.op = "close" /\ jupyterServer # Null) =>
            /\ lastOp'.killed = jupyterServer
            /\ ~lastOp'.fault
            /\ jupyterServer' = Null
            /\ (~lastOp'.killThrew /\ procs[jupyterServer].alive) =>
                    procs'[jupyterServer].hup
            /\ \A p \in 1..Len(procs) :
                    p # jupyterServer => procs'[p] = procs[p] ]_vars

\* kill() threw in a close() of the second child while the first was still
\* alive: the state is null and nothing was signalled.
C17_Witness ==
    /\ lastOp.op = "close"
    /\ lastOp.killThrew
    /\ ~lastOp.fault
    /\ lastOp.was = 2
    /\ procs[1].alive
    /\ ~procs[2].hup
    /\ jupyterServer = Null
\* C18: whenever a start callback is invoked with null, Server State is
\* populated at that moment: the callback observes getPort() # 0.
C18_SuccessMeansRunning ==
    \A i \in 1..Len(log) : log[i].e = NoError => log[i].port # 0

\* C19: Server State never holds a process whose exit has been observed.
C19_NeverRecordsExited ==
    jupyterServer # Null => ~Exited(jupyterServer)

\* C20: while a start attempt is in flight Server State is null: getPort()
\* returns 0 and handleRequest answers 500 at once, forwarding nothing.
C20_NullWhileInFlight ==
    InFlight =>
        /\ jupyterServer = Null
        /\ GetPortOf(jupyterServer) = 0
        /\ lastOp.op = "getPort" => lastOp.result = 0
        /\ lastOp.op = "handleRequest" =>
              lastOp.statusCode = 500 /\ lastOp.ended /\ ~lastOp.forwarded

\* getPort() returned 0 during the second start attempt, with the first
\* child, once ready and then closed, still alive.
C20_Witness ==
    /\ Len(procs) = 2
    /\ procs[1].probe = "resolved" /\ procs[1].alive
    /\ procs[2].probe = "pending"
    /\ lastOp.op = "getPort"
    /\ lastOp.result = 0
====
